---- MODULE Spec2Model ----
(***************************************************************************)
(* Model of the SEO crawler: one POST /api/seo/audit request served by the *)
(* singleton SEOCrawlerService (src/src/services/seo-crawler-service.ts)   *)
(* through the route handler of src/src/routes/seo-routes.ts.              *)
(*                                                                         *)
(* One action is one awaited step of the request: the robots.txt fetch,    *)
(* one fetchSitemap call, one iteration of the crawl loop, the return of   *)
(* crawlSite, the closeBrowser call of the try block and the one of the    *)
(* catch block.  Everything the network answers (documents, links,         *)
(* failures) is chosen at the moment of the fetch.                         *)
(*                                                                         *)
(* Spec is that request.  SpecSite follows fetchSitemap on a site whose    *)
(* sitemap documents are fixed by URL, SpecTwice two crawls of one fixed   *)
(* site, SpecAudit SEOAuditService.audit on a list of page analyses, and   *)
(* SpecConc two requests that share the singleton at the same time.        *)
(***************************************************************************)
EXTENDS Integers, Sequences, FiniteSets, TLC

VARIABLES
    cfg,          \* request body: url, maxPages, followSitemap, respectRobotsTxt
    pc,           \* position of the request handler
    browser,      \* SEOCrawlerService.browser: 0 is null, n > 0 the n-th launched browser
    launched,     \* number of browsers puppeteer.launch has returned
    running,      \* launched browsers whose close() has not succeeded
    closeCalls,   \* closeCalls[n]: number of times close() was invoked on browser n
    robotsTxt,    \* crawlSite local: the parsed robots policy
    sitemapUrls,  \* crawlSite local: the sitemap URLs of the for loop of line 350
    smIdx,        \* position of that loop
    smDocs,       \* number of sitemap fetches that have returned a document
    stack,        \* fetchSitemap frames that wait for a child sitemap, innermost first
    urlsToCrawl,  \* crawlSite local: the Set, as its insertion-ordered list
    queue,        \* Array.from(urlsToCrawl), evaluated once when the loop starts
    qi,           \* position of the for..of loop in queue
    crawledUrls,  \* crawlSite local: the Set of crawled URLs
    results,      \* crawlSite local: the url of every PageAnalysis pushed, in order
    inserted,     \* history: every argument of urlsToCrawl.add, in call order
    log,          \* history: every page fetch of the crawl loop, politeness sleep and close, in order
    response,     \* the HTTP answer, NoResponse until it is sent
    fetches,      \* history: number of fetchPage calls of the request
    robotsFetch,  \* history: outcome of the robots.txt fetch, "none" before it, "skip" without one
    site,         \* the sitemap documents of a fixed site, by URL
    sitePages,    \* the pages of a fixed site, by URL
    smReturned,   \* history: every sitemap index call that has returned, in order
    fetchLog,     \* history: the URL of every sitemap fetch on a fixed site, in order
    phase,        \* which of two crawls of the same fixed site is running, 0 otherwise
    saved,        \* history: what the first of the two crawls fetched and returned
    auditPages,   \* the page analyses handed to SEOAuditService.audit
    report,       \* the report audit returns, NoReport before
    reqs,         \* two requests served at the same time: position and browser in use
    robotsDoc,    \* the response a fixed site gives for robots.txt
    analysis      \* history: the page analyzePage returned last and its links

vars == <<cfg, pc, browser, launched, running, closeCalls, robotsTxt,
          sitemapUrls, smIdx, smDocs, stack, urlsToCrawl, queue, qi, crawledUrls,
          results, inserted, log, response, fetches, robotsFetch, site, sitePages,
          smReturned, fetchLog, phase, saved, auditPages, report, reqs, robotsDoc,
          analysis>>

\* the variables of the other specifications: of the crawls of a fixed
\* site, of the audit alone, of two requests at the same time, of one
\* robots.txt response and of the links of the pages
siteVars == <<site, sitePages, smReturned, fetchLog, phase, saved>>
auditVars == <<auditPages, report>>
unitVars == <<robotsDoc, analysis>>
otherVars == <<siteVars, auditVars, reqs, unitVars>>

\* the variables of one request, the browser apart
requestVars == <<cfg, pc, robotsTxt, sitemapUrls, smIdx, smDocs, stack, urlsToCrawl,
                 queue, qi, crawledUrls, results, inserted, log, response, fetches,
                 robotsFetch>>

-----------------------------------------------------------------------------
(* Bounds of the model *)

MaxPagesBound == 2      \* maxPages ranges over 0..MaxPagesBound
MaxLinks == 1           \* links extracted from one page
MaxRobotsLines == 2     \* directive lines of one robots.txt
MaxSitemapDocs == 2     \* sitemap fetches of one crawl that return a document
MaxSitemapDepth == 3    \* nested fetchSitemap calls followed on a fixed site
MaxAuditPages == 6      \* page analyses of one audit
MaxConcFetches == 2     \* fetchPage calls of one of two requests served at the same time

-----------------------------------------------------------------------------
(* URLs: a host and a path, the path as its list of segments *)

U(h, p) == [host |-> h, path |-> p]

Seed == U("site", <<>>)
PageA == U("site", <<"a">>)
Offsite == U("other", <<>>)
ChildSitemap == U("site", <<"sm1.xml">>)
ChildSitemap2 == U("site", <<"sm2.xml">>)
Missing == U("", <<>>)                 \* no url in the request body
Malformed == U("", <<"not a url">>)    \* a text that new URL() rejects
NoUrl == Missing

\* what evaluating new URL(x) gives when it throws
InvalidUrl == [thrown |-> "TypeError: Invalid URL"]

\* new URL(x) succeeds (routes lines 33-40)
IsValidUrl(x) == x.host # ""

\* new URL(url).origin that yields an origin for every text
M_Origin(u) == U(u.host, <<>>)

\* new URL(url).origin, line 331, and the path line 347 appends to it
Origin(u) == IF IsValidUrl(u) THEN U(u.host, <<>>) ELSE InvalidUrl
DefaultSitemapUrl(baseUrl) == U(baseUrl.host, <<"sitemap.xml">>)

\* crawlSite line 331 throws: new URL(url).origin rejects the seed
CrawlSiteThrows(config) == Origin(config.url) = InvalidUrl

(* hrefs of <a> elements: an absolute https URL, a root-relative path, or a
   text that new URL(href, base) rejects, as the list of its characters
   ("//", "http://") *)
AbsHref(u) == [k |-> "abs", host |-> u.host, path |-> u.path, text |-> <<>>]
RelHref(p) == [k |-> "rel", host |-> "", path |-> p, text |-> <<>>]
BadHref(t) == [k |-> "bad", host |-> "", path |-> <<>>, text |-> t]

SlashSlash == <<"/", "/">>
HttpOnly == <<"h", "t", "t", "p", ":", "/", "/">>

Hrefs == {RelHref(<<"a">>), RelHref(<<"b">>), AbsHref(Offsite), BadHref(SlashSlash),
          BadHref(HttpOnly)}

\* the <a> elements of the pages: an href and whether rel contains nofollow
Anchors == (Hrefs \X {FALSE}) \cup {<<RelHref(<<"b">>), TRUE>>}

CanResolve(href) == href.k # "bad"

\* new URL(href, base).toString()
Resolve(href, base) ==
    IF href.k = "abs" THEN U(href.host, href.path)
    ELSE U(base.host, href.path)

\* href.startsWith('/') and href.startsWith('http'), line 185: of a text
\* that does not resolve by its characters, of the other hrefs by their kind
StartsWithSlash(href) ==
    IF href.k = "bad" THEN href.text # <<>> /\ Head(href.text) = "/"
    ELSE href.k = "rel"

StartsWithHttp(href) ==
    IF href.k = "bad"
    THEN Len(href.text) >= 4 /\ SubSeq(href.text, 1, 4) = <<"h", "t", "t", "p">>
    ELSE href.k = "abs"

\* analyzePage, lines 173-186
IsInternal(href, pageUrl) ==
    IF CanResolve(href)
    THEN Resolve(href, pageUrl).host = pageUrl.host
    ELSE StartsWithSlash(href) \/ ~StartsWithHttp(href)

LinkInfo(href, nofollow, pageUrl) ==
    [href |-> href, isInternal |-> IsInternal(href, pageUrl), isNofollow |-> nofollow]

-----------------------------------------------------------------------------
(* Sequences *)

SeqUpTo(S, n) == UNION {[1..k -> S] : k \in 0..n}

Range(s) == {s[i] : i \in 1..Len(s)}

\* a Set that iterates newest first
M_SetAdd(s, x) == IF x \in Range(s) THEN s ELSE <<x>> \o s

\* an array in place of the Set: push without the membership test
M_SetAddDup(s, x) == Append(s, x)

\* Set.prototype.add on the insertion-ordered list of a Set
SetAdd(s, x) == IF x \in Range(s) THEN s ELSE Append(s, x)

RECURSIVE SetAddAll(_, _)
SetAddAll(s, xs) ==
    IF xs = <<>> THEN s ELSE SetAddAll(SetAdd(s, Head(xs)), Tail(xs))

-----------------------------------------------------------------------------
(* robots.txt: fetchRobotsTxt, lines 288-318 *)

\* a number | null of the code is <<>> for null (and for NaN) and <<n>> for n
Null == <<>>

DigitVal(c) ==
    CASE c = "0" -> 0 [] c = "1" -> 1 [] c = "2" -> 2 [] c = "3" -> 3
      [] c = "4" -> 4 [] c = "5" -> 5 [] c = "6" -> 6 [] c = "7" -> 7
      [] c = "8" -> 8 [] c = "9" -> 9 [] OTHER -> -1

\* the value of c as a digit of the radix, -1 when it is none
RadixDigitVal(c, radix) ==
    IF radix = 10 THEN DigitVal(c)
    ELSE CASE c \in {"a", "A"} -> 10 [] c \in {"b", "B"} -> 11
           [] c \in {"c", "C"} -> 12 [] c \in {"d", "D"} -> 13
           [] c \in {"e", "E"} -> 14 [] c \in {"f", "F"} -> 15
           [] OTHER -> DigitVal(c)

RECURSIVE LeadingDigits(_, _, _)
LeadingDigits(chars, acc, radix) ==
    IF chars = <<>> \/ RadixDigitVal(Head(chars), radix) < 0 THEN acc
    ELSE LeadingDigits(Tail(chars), acc * radix + RadixDigitVal(Head(chars), radix),
                       radix)

\* parseInt without a radix, of a trimmed text: an optional sign, then the
\* leading digits, hexadecimal ones after 0x or 0X; NaN when there is none
ParseInt(chars) ==
    LET signed == chars # <<>> /\ Head(chars) \in {"+", "-"}
        sign == IF signed /\ Head(chars) = "-" THEN -1 ELSE 1
        unsigned == IF signed THEN Tail(chars) ELSE chars
        hex == Len(unsigned) >= 2 /\ unsigned[1] = "0" /\ unsigned[2] \in {"x", "X"}
        radix == IF hex THEN 16 ELSE 10
        digits == IF hex THEN Tail(Tail(unsigned)) ELSE unsigned
    IN IF digits = <<>> \/ RadixDigitVal(Head(digits), radix) < 0 THEN Null
       ELSE <<sign * LeadingDigits(digits, 0, radix)>>

\* parseInt(...) || null, line 309: NaN and 0 are falsy
ParseCrawlDelay(chars) ==
    LET n == ParseInt(chars) IN IF n = Null \/ n = <<0>> THEN Null ELSE n

SitemapLine(u) == [d |-> "sitemap", url |-> u, path |-> <<>>, chars |-> <<>>]
DisallowLine(p) == [d |-> "disallow", url |-> NoUrl, path |-> p, chars |-> <<>>]
CrawlDelayLine(c) == [d |-> "crawl-delay", url |-> NoUrl, path |-> <<>>, chars |-> c]

RobotsLines == {SitemapLine(ChildSitemap), DisallowLine(<<"a">>),
                CrawlDelayLine(<<"2">>), CrawlDelayLine(<<"x">>),
                CrawlDelayLine(<<"0">>)}

EmptyPolicy == [sitemaps |-> <<>>, disallowed |-> <<>>, crawlDelay |-> Null]

RobotsFailures == {"launchfail", "navfail"}

\* the for loop of lines 302-311
RECURSIVE ParseRobots(_, _)
ParseRobots(lines, policy) ==
    IF lines = <<>> THEN policy
    ELSE LET l == Head(lines)
             next == CASE l.d = "sitemap" ->
                            [policy EXCEPT !.sitemaps = Append(@, l.url)]
                       [] l.d = "disallow" ->
                            [policy EXCEPT !.disallowed = Append(@, l.path)]
                       [] l.d = "crawl-delay" ->
                            [policy EXCEPT !.crawlDelay = ParseCrawlDelay(l.chars)]
                       [] OTHER -> policy
         IN ParseRobots(Tail(lines), next)

\* lines 314-317 with the failure thrown on to crawlSite
M_FetchRobotsTxtThrows(o) == o \in RobotsFailures

\* the try block spans the body of fetchRobotsTxt (lines 289-317): no
\* outcome of the fetch leaves the function as an exception
FetchRobotsTxtThrows(o) == FALSE

\* lines 314-317 with what was read of robots.txt before the failure kept
M_FetchRobotsTxt(o, lines) == ParseRobots(lines, EmptyPolicy)

\* what fetchRobotsTxt returns (lines 313 and 316)
FetchRobotsTxt(o, lines) ==
    IF o = "ok" THEN ParseRobots(lines, EmptyPolicy) ELSE EmptyPolicy

-----------------------------------------------------------------------------
(* History records *)

\* fetchPage(url, waitForSelector?, timeout = 30000), line 85
DefaultTimeoutMs == 30000

\* the timeout of the page.goto of a page fetch of crawlSite called with
\* config: crawlSite calls analyzePage(pageUrl) (line 370), analyzePage calls
\* fetchPage(url, waitForSelector) (line 135), and neither passes a timeout
PageFetchTimeout(config) == DefaultTimeoutMs

\* a page fetch of the crawl, with the navigation timeout it ran under
FetchEvent(kind, u, ok) ==
    [kind |-> kind, url |-> u, ok |-> ok, ms |-> 0, timeout |-> PageFetchTimeout(cfg)]
SleepEvent(ms) == [kind |-> "sleep", url |-> NoUrl, ok |-> TRUE, ms |-> ms, timeout |-> 0]
CloseEvent(ok) == [kind |-> "close", url |-> NoUrl, ok |-> ok, ms |-> 0, timeout |-> 0]

\* no robots.txt response and no page analyzed
NoRobotsDoc == [o |-> "none", status |-> 0, lines |-> <<>>]
NoAnalysis == [some |-> FALSE, url |-> NoUrl, links |-> <<>>]

NoResponse == [status |-> 0, success |-> FALSE, totalPages |-> 0]

-----------------------------------------------------------------------------
(* The browser: initBrowser (lines 56-70) and closeBrowser (lines 75-80) *)

\* what a fetchPage call can meet: puppeteer.launch rejects (only when no
\* browser exists yet), the navigation rejects, or the page is returned
FetchOutcomes == IF browser = 0 THEN {"launchfail", "navfail", "ok"}
                 ELSE {"navfail", "ok"}

\* the browser part of one fetchPage call with outcome o
InitBrowser(o) ==
    IF browser = 0 /\ o # "launchfail"
    THEN /\ launched' = launched + 1
         /\ browser' = launched + 1
         /\ running' = running \cup {launched + 1}
         /\ closeCalls' = Append(closeCalls, 0)
    ELSE UNCHANGED <<launched, browser, running, closeCalls>>

\* closeBrowser with outcome ok of browser.close(): TRUE when it threw
CloseThrows(ok) == browser # 0 /\ ~ok

CloseBrowser(ok) ==
    IF browser # 0
    THEN /\ closeCalls' = [closeCalls EXCEPT ![browser] = @ + 1]
         /\ log' = Append(log, CloseEvent(ok))
         /\ IF ok THEN browser' = 0 /\ running' = running \ {browser}
                  ELSE UNCHANGED <<browser, running>>
         /\ UNCHANGED launched
    ELSE UNCHANGED <<closeCalls, log, browser, running, launched>>

-----------------------------------------------------------------------------
(* fetchSitemap, lines 251-283 *)

\* a sitemap document: the number of its <sitemap> elements, the texts of
\* its <sitemap><loc> and of its <url><loc>
SitemapDoc(sitemaps, sitemapLocs, urlLocs) ==
    [sitemaps |-> sitemaps, sitemapLocs |-> sitemapLocs, urlLocs |-> urlLocs]

\* a <sitemap> element without a <loc>, alone or beside a <url><loc>
BareSitemapDocs == {SitemapDoc(1, <<>>, u) : u \in {<<>>, <<PageA>>}}

\* the documents served are empty, urlsets, an index, an index that also
\* lists a page, and the documents whose <sitemap> has no <loc>
SitemapDocs ==
    {SitemapDoc(Len(l), l, u) : l \in {<<>>, <<ChildSitemap>>},
                                u \in {<<>>, <<PageA>>, <<Offsite>>}}
    \cup BareSitemapDocs

\* lines 256-266: the <sitemap><loc> texts, then the <url><loc> texts
DocUrls(doc) == doc.sitemapLocs \o doc.urlLocs

\* line 269: $('sitemap').length > 0
IsSitemapIndex(doc) == doc.sitemaps > 0

\* lines 269-271: the for loop of an index has a child to resolve
HasChildren(doc) == IsSitemapIndex(doc) /\ DocUrls(doc) # <<>>

\* what a call that resolves no child returns: urls of a urlset (line 278),
\* the empty childUrls of an index without <loc> (lines 270, 275)
LeafResult(doc) == IF IsSitemapIndex(doc) THEN <<>> ELSE DocUrls(doc)

\* line 270 with childUrls starting as the locs of the index itself
M_Frame(doc) ==
    [urls |-> DocUrls(doc), i |-> 1, acc |-> DocUrls(doc), doc |-> doc, rets |-> <<>>]

\* a call that resolves the children of the index doc (lines 269-276): urls
\* is the list of the for loop, i its position, acc is childUrls; doc and
\* rets, what each child resolved so far has returned, are history
Frame(doc) ==
    [urls |-> DocUrls(doc), i |-> 1, acc |-> <<>>, doc |-> doc, rets |-> <<>>]

\* the URL of the fetchSitemap call that is about to fetch
SitemapCallUrl ==
    IF stack = <<>> THEN sitemapUrls[smIdx]
    ELSE Head(stack).urls[Head(stack).i]

\* a document without any element
NoDoc == SitemapDoc(0, <<>>, <<>>)

\* an index call that returns (line 275): its document, what each child it
\* resolved returned, and childUrls
IndexReturn(doc, rets, out) == [doc |-> doc, rets |-> rets, out |-> out]

(* A fetchSitemap call returns result to the frames that wait for it: the
   innermost frame appends it to childUrls (line 273) and goes on with its
   next child, or it has no child left and returns childUrls in turn (line
   275).  top is TRUE when the outermost call has returned out to crawlSite;
   returned lists the index calls that returned, the innermost first. *)
RECURSIVE Deliver(_, _)
Deliver(frames, result) ==
    IF frames = <<>>
    THEN [frames |-> <<>>, top |-> TRUE, out |-> result, returned |-> <<>>]
    ELSE LET f == Head(frames)
             acc == f.acc \o result
             rets == Append(f.rets, result)
         IN IF f.i < Len(f.urls)
            THEN [frames |-> <<[f EXCEPT !.i = f.i + 1, !.acc = acc, !.rets = rets]>>
                             \o Tail(frames),
                  top |-> FALSE, out |-> <<>>, returned |-> <<>>]
            ELSE LET d == Deliver(Tail(frames), acc)
                 IN [d EXCEPT !.returned = <<IndexReturn(f.doc, rets, acc)>> \o @]

\* lines 278-281 missing: the failure of one fetch unwinds every waiting call
M_SitemapFailed(frames) ==
    [frames |-> <<>>, top |-> TRUE, out |-> <<>>, returned |-> <<>>]

\* lines 278-281: the call whose fetch failed returns [] to its caller
SitemapFailed(frames) == Deliver(frames, <<>>)

(* A fixed site: every sitemap URL answers each fetch in the same way, with
   a failure or with a document.  The documents are urlsets, indexes of one
   or two children, indexes that also list a page, and indexes that refer to
   the root sitemap.  Any other URL answers with a page, which has no
   <sitemap> and no <url> element. *)
RootSitemap == DefaultSitemapUrl(Origin(Seed))

SiteSitemapUrls == {RootSitemap, ChildSitemap, ChildSitemap2}

SiteDocs ==
    {SitemapDoc(Len(l), l, u) :
        l \in {<<>>, <<ChildSitemap>>, <<ChildSitemap, ChildSitemap2>>,
               <<RootSitemap>>},
        u \in {<<>>, <<PageA>>, <<Offsite>>}}
    \cup BareSitemapDocs

SiteAnswers == [o : {"ok", "navfail"}, doc : SiteDocs]

\* one answer stands for every failure
Sites ==
    [SiteSitemapUrls ->
        {a \in SiteAnswers : a.o = "navfail" => a.doc = NoDoc}]

NoSite == [u \in SiteSitemapUrls |-> [o |-> "navfail", doc |-> NoDoc]]

\* placeholders of the specifications that do not crawl pages of a fixed
\* site, save a first crawl, or serve two requests
NoPages == <<>>
NoSaved == <<>>
NoRequests == <<>>

\* the pages of the fixed site: each answers every fetch in the same way,
\* with a failure or with a page; the seed page has one of the links or
\* none, PageA a link to /b or none, the other pages have none
PageB == U("site", <<"b">>)

SitePageUrls == {Seed, PageA, PageB, Offsite}

PageAnswers(u) ==
    {[o |-> "navfail", anchors |-> <<>>]}
    \cup {[o |-> "ok", anchors |-> l] :
            l \in IF u = Seed THEN {<<>>} \cup {<<a>> : a \in Anchors}
                  ELSE IF u = PageA THEN {<<>>, <<<<RelHref(<<"b">>), FALSE>>>>}
                  ELSE {<<>>}}

SitesOfPages == {f \in [SitePageUrls -> UNION {PageAnswers(u) : u \in SitePageUrls}] :
                    \A u \in SitePageUrls : f[u] \in PageAnswers(u)}

\* the pages of the site without links: each is served or fails
ServedPages == [SitePageUrls -> [o : {"ok", "navfail"}, anchors : {<<>>}]]

\* any other URL, a sitemap URL for one, is not a page that can be analyzed
PageAnswer(u) ==
    IF u \in SitePageUrls THEN sitePages[u] ELSE [o |-> "navfail", anchors |-> <<>>]

\* what robots.txt holds while its fetch fails
UnreadRobots ==
    {<<>>, <<CrawlDelayLine(<<"2">>)>>, <<SitemapLine(ChildSitemap)>>,
     <<DisallowLine(<<"a">>), CrawlDelayLine(<<"2">>)>>}

\* the sites of the two crawls: a root sitemap that may list one child
TwiceSites ==
    {f \in Sites : /\ f[ChildSitemap2] = NoSite[ChildSitemap2]
                   /\ ~IsSitemapIndex(f[ChildSitemap].doc)
                   /\ f[RootSitemap].doc.sitemapLocs \in {<<>>, <<ChildSitemap>>}
                   /\ f[RootSitemap].doc \notin BareSitemapDocs}

\* fetchSitemap of a URL that is a page of the site: fetchPage returns the
\* page, which has no <loc>, or fails as the page does
SiteAnswer(u) ==
    IF u \in SiteSitemapUrls THEN site[u]
    ELSE [o |-> PageAnswer(u).o, doc |-> NoDoc]

-----------------------------------------------------------------------------
(* crawlSite, lines 323-404 *)

DefaultDelayMs == 1000
MsPerSecond == 1000

\* line 360 with > in place of >=
M_BudgetReached(crawled, maxPages) == Cardinality(crawled) > maxPages

\* line 360
BudgetReached(crawled, maxPages) == Cardinality(crawled) >= maxPages

\* line 372 with unshift in place of push
M_PushResult(res, pageUrl) == <<pageUrl>> \o res

\* line 372
PushResult(res, pageUrl) == Append(res, pageUrl)

\* lines 390-397 with the crawl delay of robots.txt ignored
M_PolitenessDelay(policy) == DefaultDelayMs

\* lines 390-397: the argument of setTimeout
PolitenessDelay(policy) ==
    IF policy.crawlDelay # Null /\ policy.crawlDelay # <<0>>
    THEN policy.crawlDelay[1] * MsPerSecond
    ELSE DefaultDelayMs

\* lines 345-348
SitemapSeeds(policy, baseUrl) ==
    IF Len(policy.sitemaps) > 0 THEN policy.sitemaps
    ELSE <<DefaultSitemapUrl(baseUrl)>>

(* lines 376-387: the absolute URLs handed to urlsToCrawl.add, in order, for
   the links of the page at pageUrl, crawled being crawledUrls at that time *)
RECURSIVE FollowedUrls(_, _, _)
FollowedUrls(links, pageUrl, crawled) ==
    IF links = <<>> THEN <<>>
    ELSE LET l == Head(links)
             rest == FollowedUrls(Tail(links), pageUrl, crawled)
         IN IF l.isInternal /\ ~l.isNofollow /\ CanResolve(l.href)
               /\ Resolve(l.href, pageUrl) \notin crawled
            THEN <<Resolve(l.href, pageUrl)>> \o rest
            ELSE rest

\* the links analyzePage extracts from a page with the given <a> elements
RECURSIVE PageLinks(_, _)
PageLinks(anchors, pageUrl) ==
    IF anchors = <<>> THEN <<>>
    ELSE <<LinkInfo(Head(anchors)[1], Head(anchors)[2], pageUrl)>>
         \o PageLinks(Tail(anchors), pageUrl)

\* the for..of loop starts: Array.from(urlsToCrawl), line 359
StartLoop(pending) ==
    /\ queue' = pending
    /\ qi' = 1
    /\ pc' = "crawl"

-----------------------------------------------------------------------------
(* SEOAuditService (src/src/services/seo-audit-service.ts) *)

(* The numbers of calculateHealthScore are IEEE 754 doubles.  A finite one,
   never negative here, is its integer part and the bits of its fraction,
   the bit of 1/2 first; every operation computes the exact result and
   rounds it to 53 significant bits, ties to even.  Num(n, 1) is the integer
   n that Math.round returns. *)
Num(n, d) == [k |-> "num", n |-> n, d |-> d]
Infinity == [k |-> "inf", n |-> 0, d |-> 1]
NaN == [k |-> "nan", n |-> 0, d |-> 1]

Float(int, frac) == [k |-> "float", int |-> int, frac |-> frac]

SignificantBits == 53

RECURSIVE BitLen(_)
BitLen(n) == IF n = 0 THEN 0 ELSE 1 + BitLen(n \div 2)

\* the position of the first 1 of the bits, Len + 1 when there is none
FirstOne(bits) ==
    IF \A i \in 1..Len(bits) : bits[i] = 0 THEN Len(bits) + 1
    ELSE CHOOSE i \in 1..Len(bits) : bits[i] = 1 /\ \A j \in 1..(i - 1) : bits[j] = 0

\* the number that the bits spell, and back; the arithmetic on the bits
\* goes by groups of 16 bits
RECURSIVE BitsValue(_)
BitsValue(bits) ==
    IF bits = <<>> THEN 0
    ELSE 2 * BitsValue(SubSeq(bits, 1, Len(bits) - 1)) + bits[Len(bits)]

ValueBits(v, n) == [m \in 1..n |-> (v \div 2^(n - m)) % 2]

FirstChunk(bits) == SubSeq(bits, 1, IF Len(bits) > 16 THEN 16 ELSE Len(bits))
RestChunks(bits) == SubSeq(bits, Len(FirstChunk(bits)) + 1, Len(bits))

\* the bits plus one unit in the last place, and the carry out of them
IncBits(bits) ==
    IF \A i \in 1..Len(bits) : bits[i] = 1
    THEN [bits |-> [i \in 1..Len(bits) |-> 0], carry |-> 1]
    ELSE LET z == CHOOSE i \in 1..Len(bits) :
                     bits[i] = 0 /\ \A j \in (i + 1)..Len(bits) : bits[j] = 1
         IN [bits |-> [i \in 1..Len(bits) |->
                          IF i < z THEN bits[i] ELSE IF i = z THEN 1 ELSE 0],
             carry |-> 0]

\* the exact value int + 0.frac rounded to a double
RoundToDouble(int, frac) ==
    LET lead == IF int > 0 THEN 0 ELSE FirstOne(frac)
        keep == IF int > 0 THEN SignificantBits - BitLen(int)
                ELSE lead - 1 + SignificantBits
    IN IF Len(frac) <= keep THEN Float(int, frac)
       ELSE LET kept == SubSeq(frac, 1, keep)
                guard == frac[keep + 1]
                sticky == \E m \in (keep + 2)..Len(frac) : frac[m] = 1
                last == IF keep > 0 THEN frac[keep] ELSE int % 2
                up == guard = 1 /\ (sticky \/ last = 1)
                r == IncBits(kept)
            IN IF up THEN Float(int + r.carry, r.bits) ELSE Float(int, kept)

\* n bits of the binary fraction r / t for 0 <= r < t, then one more bit
\* that says whether anything is left
RECURSIVE FractionBits(_, _, _)
FractionBits(r, t, n) ==
    IF n = 0 THEN IF r = 0 THEN <<>> ELSE <<1>>
    ELSE IF 2 * r >= t THEN <<1>> \o FractionBits(2 * r - t, t, n - 1)
         ELSE <<0>> \o FractionBits(2 * r, t, n - 1)

\* a / b for integers a >= 0 and b >= 0
Div(a, b) ==
    IF b > 0
    THEN RoundToDouble(a \div b,
                       FractionBits(a % b, b, SignificantBits + BitLen(b) + 2))
    ELSE IF a = 0 THEN NaN ELSE Infinity

\* the bits times c, and the carry out of them
RECURSIVE MulBits(_, _)
MulBits(bits, c) ==
    IF bits = <<>> THEN [bits |-> <<>>, carry |-> 0]
    ELSE LET k == Len(FirstChunk(bits))
             r == MulBits(RestChunks(bits), c)
             v == BitsValue(FirstChunk(bits)) * c + r.carry
         IN [bits |-> ValueBits(v % 2^k, k) \o r.bits, carry |-> v \div 2^k]

\* x * c for an integer c > 0
Times(x, c) ==
    IF x.k = "float"
    THEN LET r == MulBits(x.frac, c) IN RoundToDouble(x.int * c + r.carry, r.bits)
    ELSE x

\* Math.min(x, c) for an integer c: NaN when x is NaN
MathMin(x, c) ==
    CASE x.k = "nan" -> NaN
      [] x.k = "inf" -> Float(c, <<>>)
      [] OTHER -> IF x.int < c \/ (x.int = c /\ \A m \in 1..Len(x.frac) : x.frac[m] = 0)
                  THEN x ELSE Float(c, <<>>)

\* the bits a minus the bits b of the same length, and the borrow out of them
RECURSIVE SubBits(_, _)
SubBits(a, b) ==
    IF a = <<>> THEN [bits |-> <<>>, borrow |-> 0]
    ELSE LET k == Len(FirstChunk(a))
             r == SubBits(RestChunks(a), RestChunks(b))
             v == BitsValue(FirstChunk(a)) - BitsValue(FirstChunk(b)) - r.borrow
         IN [bits |-> ValueBits((v + 2^k) % 2^k, k) \o r.bits,
             borrow |-> IF v < 0 THEN 1 ELSE 0]

PadBits(bits, n) == bits \o [m \in 1..(n - Len(bits)) |-> 0]

\* x - y for finite x >= y >= 0, or NaN
Minus(x, y) ==
    IF x.k = "nan" \/ y.k = "nan" THEN NaN
    ELSE LET n == IF Len(x.frac) > Len(y.frac) THEN Len(x.frac) ELSE Len(y.frac)
             r == SubBits(PadBits(x.frac, n), PadBits(y.frac, n))
         IN RoundToDouble(x.int - y.int - r.borrow, r.bits)

\* Math.round of x >= 0: the nearest integer, a half rounded up
MathRound(x) ==
    IF x.k = "nan" THEN NaN
    ELSE Num(x.int + (IF x.frac # <<>> /\ x.frac[1] = 1 THEN 1 ELSE 0), 1)

\* Math.max(0, x)
MathMax0(x) == IF x.k = "nan" THEN NaN ELSE IF x.n < 0 THEN Num(0, 1) ELSE x

\* lines 416-438
CalculateHealthScore(summary, totalPages) ==
    LET errorsPerPage == Div(summary.errors, totalPages)
        warningsPerPage == Div(summary.warnings, totalPages)
        noticesPerPage == Div(summary.notices, totalPages)
        score1 == Minus(Float(100, <<>>), MathMin(Times(errorsPerPage, 10), 40))
        score2 == Minus(score1, MathMin(Times(warningsPerPage, 5), 30))
        score3 == Minus(score2, MathMin(Times(noticesPerPage, 2), 20))
    IN MathMax0(MathRound(score3))

(* A page analysis, as far as the checks read it: the title and the meta
   description are a text ("" when there is none) and its length, h1Tags and
   schemaMarkup the number of their elements, imageAlts whether each image
   has an alt text, og whether og:title and og:description are both there. *)
HomePage ==
    [url |-> Seed, scheme |-> "https", title |-> "home", titleLen |-> 40,
     metaDescription |-> "about", descLen |-> 140, h1Tags |-> 1,
     imageAlts |-> <<TRUE>>, wordCount |-> 500, canonical |-> TRUE, og |-> TRUE,
     schemaMarkup |-> 1, statusCode |-> 200]

\* a page with the title and the description of HomePage
TwinPage == [HomePage EXCEPT !.url = PageA]

BarePage ==
    [url |-> U("site", <<"b">>), scheme |-> "https", title |-> "", titleLen |-> 0,
     metaDescription |-> "", descLen |-> 0, h1Tags |-> 0,
     imageAlts |-> <<TRUE, FALSE>>, wordCount |-> 500, canonical |-> FALSE, og |-> FALSE,
     schemaMarkup |-> 1, statusCode |-> 404]

LongPage ==
    [url |-> Offsite, scheme |-> "http", title |-> "long", titleLen |-> 70,
     metaDescription |-> "much", descLen |-> 200, h1Tags |-> 2,
     imageAlts |-> <<>>, wordCount |-> 100, canonical |-> TRUE, og |-> FALSE,
     schemaMarkup |-> 0, statusCode |-> 200]

ShortPage ==
    [url |-> U("site", <<"c">>), scheme |-> "https", title |-> "short", titleLen |-> 10,
     metaDescription |-> "few", descLen |-> 50, h1Tags |-> 1,
     imageAlts |-> <<TRUE>>, wordCount |-> 300, canonical |-> FALSE, og |-> TRUE,
     schemaMarkup |-> 1, statusCode |-> 500]

\* a page with the title and the description of ShortPage
ShortTwinPage == [ShortPage EXCEPT !.url = U("site", <<"d">>)]

\* a page without an issue
PlainPage ==
    [HomePage EXCEPT !.url = U("site", <<"e">>), !.title = "plain",
                     !.metaDescription = "plain"]

SamplePages ==
    {HomePage, TwinPage, BarePage, LongPage, ShortPage, ShortTwinPage, PlainPage}

PageUrls(pages) == [i \in 1..Len(pages) |-> pages[i].url]

\* the issue a check pushes when its filter has kept a page
Issue(type, severity, affected) ==
    IF Len(affected) > 0
    THEN <<[type |-> type, severity |-> severity, affectedUrls |-> PageUrls(affected)]>>
    ELSE <<>>

\* lines 76-113
CheckTitles(pages) ==
    Issue("missing_title", "error", SelectSeq(pages, LAMBDA p : p.title = ""))
    \o Issue("title_too_short", "warning",
             SelectSeq(pages, LAMBDA p : p.title # "" /\ p.titleLen < 30))
    \o Issue("title_too_long", "warning",
             SelectSeq(pages, LAMBDA p : p.title # "" /\ p.titleLen > 60))

\* lines 119-160
CheckMetaDescriptions(pages) ==
    Issue("missing_meta_description", "error",
          SelectSeq(pages, LAMBDA p : p.metaDescription = ""))
    \o Issue("meta_description_too_short", "warning",
             SelectSeq(pages, LAMBDA p : p.metaDescription # "" /\ p.descLen < 120))
    \o Issue("meta_description_too_long", "warning",
             SelectSeq(pages, LAMBDA p : p.metaDescription # "" /\ p.descLen > 160))

\* lines 166-192
CheckH1Tags(pages) ==
    Issue("missing_h1", "error", SelectSeq(pages, LAMBDA p : p.h1Tags = 0))
    \o Issue("multiple_h1", "error", SelectSeq(pages, LAMBDA p : p.h1Tags > 1))

\* lines 198-219
CheckImages(pages) ==
    Issue("missing_image_alt", "warning",
          SelectSeq(pages, LAMBDA p : \E i \in 1..Len(p.imageAlts) : ~p.imageAlts[i]))

\* lines 225-240
CheckContent(pages) ==
    Issue("thin_content", "warning", SelectSeq(pages, LAMBDA p : p.wordCount < 300))

\* lines 246-261
CheckCanonical(pages) ==
    Issue("missing_canonical", "notice", SelectSeq(pages, LAMBDA p : ~p.canonical))

\* lines 267-284
CheckOpenGraph(pages) ==
    Issue("missing_open_graph", "notice", SelectSeq(pages, LAMBDA p : ~p.og))

\* lines 290-305
CheckSchema(pages) ==
    Issue("missing_schema", "notice", SelectSeq(pages, LAMBDA p : p.schemaMarkup = 0))

\* lines 311-329
CheckBrokenLinks(pages) ==
    Issue("broken_pages", "error",
          SelectSeq(pages, LAMBDA p : p.statusCode >= 400 /\ p.statusCode < 600))

\* lines 335-349
CheckSSL(pages) ==
    Issue("missing_ssl", "error", SelectSeq(pages, LAMBDA p : p.scheme = "http"))

\* the pages whose text is texts[i], in the order of the pages: the value
\* of the Map entry of that text (lines 360-367 and 387-394)
SameText(pages, texts, i) ==
    LET at == SelectSeq([k \in 1..Len(pages) |-> k], LAMBDA k : texts[k] = texts[i])
    IN [m \in 1..Len(at) |-> pages[at[m]]]

\* the entries of the Map from the one the page at i has set, in insertion
\* order, those with more than one URL flattened (lines 369-375 and 396-400)
RECURSIVE SharedTextFrom(_, _, _)
SharedTextFrom(pages, texts, i) ==
    IF i > Len(pages) THEN <<>>
    ELSE (IF /\ texts[i] # ""
             /\ \A j \in 1..(i - 1) : texts[j] # texts[i]
             /\ Len(SameText(pages, texts, i)) > 1
          THEN SameText(pages, texts, i) ELSE <<>>)
         \o SharedTextFrom(pages, texts, i + 1)

\* the pages that share a text with another page, group by group
SharedText(pages, texts) == SharedTextFrom(pages, texts, 1)

\* lines 355-410
CheckDuplicates(pages) ==
    Issue("duplicate_titles", "warning",
          SharedText(pages, [i \in 1..Len(pages) |-> pages[i].title]))
    \o Issue("duplicate_meta_descriptions", "warning",
             SharedText(pages, [i \in 1..Len(pages) |-> pages[i].metaDescription]))

\* lines 38-50
Issues(pages) ==
    CheckTitles(pages) \o CheckMetaDescriptions(pages) \o CheckH1Tags(pages)
    \o CheckImages(pages) \o CheckContent(pages) \o CheckCanonical(pages)
    \o CheckOpenGraph(pages) \o CheckSchema(pages) \o CheckBrokenLinks(pages)
    \o CheckSSL(pages) \o CheckDuplicates(pages)

\* lines 53-57
Summary(issues) ==
    [errors |-> Len(SelectSeq(issues, LAMBDA i : i.severity = "error")),
     warnings |-> Len(SelectSeq(issues, LAMBDA i : i.severity = "warning")),
     notices |-> Len(SelectSeq(issues, LAMBDA i : i.severity = "notice"))]

NoReport ==
    [some |-> FALSE, totalPages |-> 0, healthScore |-> NaN, issues |-> <<>>,
     summary |-> [errors |-> 0, warnings |-> 0, notices |-> 0]]

\* audit, lines 36-70
AuditReport(pages) ==
    [some |-> TRUE, totalPages |-> Len(pages),
     healthScore |-> CalculateHealthScore(Summary(Issues(pages)), Len(pages)),
     issues |-> Issues(pages), summary |-> Summary(Issues(pages))]

-----------------------------------------------------------------------------
(* Initial state: the service as constructed and one request body *)

\* the state of the variables of the other specifications
SiteIdle ==
    /\ site = NoSite
    /\ sitePages = NoPages
    /\ smReturned = <<>>
    /\ fetchLog = <<>>
    /\ phase = 0
    /\ saved = NoSaved

AuditIdle == auditPages = <<>> /\ report = NoReport

ReqsIdle == reqs = NoRequests

UnitIdle == robotsDoc = NoRobotsDoc /\ analysis = NoAnalysis

Configs ==
    [url : {Seed, Malformed, Missing},
     maxPages : 0..MaxPagesBound,
     followSitemap : BOOLEAN,
     respectRobotsTxt : BOOLEAN,
     timeout : {Null}]

Init ==
    /\ cfg \in Configs
    /\ pc = "request"
    /\ browser = 0
    /\ launched = 0
    /\ running = {}
    /\ closeCalls = <<>>
    /\ robotsTxt = EmptyPolicy
    /\ sitemapUrls = <<>>
    /\ smIdx = 1
    /\ smDocs = 0
    /\ stack = <<>>
    /\ urlsToCrawl = <<>>
    /\ queue = <<>>
    /\ qi = 1
    /\ crawledUrls = {}
    /\ results = <<>>
    /\ inserted = <<>>
    /\ log = <<>>
    /\ response = NoResponse
    /\ fetches = 0
    /\ robotsFetch = "none"
    /\ SiteIdle /\ AuditIdle /\ ReqsIdle /\ UnitIdle

-----------------------------------------------------------------------------
(* Actions *)

\* routes lines 15-51 and crawlSite lines 323-334: validation, then the
\* synchronous start of crawlSite, whose throw at line 331 the catch block
\* of the route receives
Request ==
    /\ pc = "request"
    /\ IF cfg.url = Missing \/ ~IsValidUrl(cfg.url)
       THEN /\ response' = [status |-> 400, success |-> FALSE, totalPages |-> 0]
            /\ pc' = "done"
            /\ UNCHANGED <<urlsToCrawl, inserted>>
       ELSE IF CrawlSiteThrows(cfg)
       THEN /\ pc' = "catch"
            /\ UNCHANGED <<urlsToCrawl, inserted, response>>
       ELSE /\ urlsToCrawl' = <<cfg.url>>
            /\ inserted' = <<cfg.url>>
            /\ pc' = "robots"
            /\ UNCHANGED response
    /\ UNCHANGED <<cfg, browser, launched, running, closeCalls, robotsTxt,
                   sitemapUrls, smIdx, smDocs, stack, queue, qi, crawledUrls, results, log,
                   fetches, robotsFetch, otherVars>>

\* crawlSite lines 336-348: the robots policy, then the sitemap URLs; o is
\* the outcome of the robots.txt fetch, "skip" without respectRobotsTxt
RobotsWith(o, lines) ==
    /\ robotsFetch' = o
    /\ UNCHANGED log
    /\ IF o = "skip"
       THEN /\ robotsTxt' = EmptyPolicy
            /\ UNCHANGED <<browser, launched, running, closeCalls, fetches>>
       ELSE /\ InitBrowser(o)
            /\ fetches' = fetches + 1
            /\ robotsTxt' = FetchRobotsTxt(o, lines)
    /\ IF o # "skip" /\ FetchRobotsTxtThrows(o)
       THEN /\ pc' = "catch"
            /\ UNCHANGED <<sitemapUrls, queue, qi>>
       ELSE IF cfg.followSitemap
            THEN /\ sitemapUrls' = SitemapSeeds(robotsTxt', Origin(cfg.url))
                 /\ pc' = "sitemap"
                 /\ UNCHANGED <<queue, qi>>
            ELSE /\ StartLoop(urlsToCrawl)
                 /\ UNCHANGED sitemapUrls
    /\ UNCHANGED <<cfg, smIdx, smDocs, stack, urlsToCrawl, crawledUrls, results,
                   inserted, response>>

Robots ==
    /\ pc = "robots"
    /\ IF cfg.respectRobotsTxt
       THEN \E o \in FetchOutcomes, lines \in SeqUpTo(RobotsLines, MaxRobotsLines) :
               RobotsWith(o, lines)
       ELSE RobotsWith("skip", <<>>)
    /\ UNCHANGED otherVars

\* one fetchSitemap call (lines 251-283) that the network answers with
\* outcome o and document doc and, when the outermost call returns, the body
\* of the loop of crawlSite lines 350-353
SitemapWith(o, doc) ==
    /\ InitBrowser(o)
    /\ fetches' = fetches + 1
    /\ smDocs' = IF o = "ok" THEN smDocs + 1 ELSE smDocs
    /\ IF o = "ok" /\ HasChildren(doc)
       THEN /\ stack' = <<Frame(doc)>> \o stack
            /\ UNCHANGED <<urlsToCrawl, inserted, smIdx, queue, qi, pc>>
       ELSE LET d == IF o = "ok" THEN Deliver(stack, LeafResult(doc))
                     ELSE SitemapFailed(stack)
            IN /\ stack' = d.frames
               /\ IF d.top
                  THEN /\ urlsToCrawl' = SetAddAll(urlsToCrawl, d.out)
                       /\ inserted' = inserted \o d.out
                       /\ smIdx' = smIdx + 1
                       /\ IF smIdx < Len(sitemapUrls)
                          THEN UNCHANGED <<queue, qi, pc>>
                          ELSE StartLoop(urlsToCrawl')
                  ELSE UNCHANGED <<urlsToCrawl, inserted, smIdx, queue, qi, pc>>
    /\ UNCHANGED <<cfg, robotsTxt, robotsFetch, sitemapUrls, crawledUrls, results, log,
                   response>>

\* the sitemap fetches of a crawl whose documents are chosen at each fetch
Sitemap ==
    /\ pc = "sitemap"
    /\ \E o \in FetchOutcomes, doc \in SitemapDocs :
          /\ o = "ok" => smDocs < MaxSitemapDocs
          /\ SitemapWith(o, doc)
    /\ UNCHANGED otherVars

\* the index calls that have returned after a sitemap step: the call of
\* the step itself when its document is an index without <loc> (its loop
\* runs no iteration, lines 270-275), then every waiting call that the
\* result completes
SitemapReturned(o, doc) ==
    LET d == IF o = "ok" THEN Deliver(stack, LeafResult(doc)) ELSE SitemapFailed(stack)
    IN IF o = "ok" /\ HasChildren(doc) THEN smReturned
       ELSE smReturned
            \o (IF o = "ok" /\ IsSitemapIndex(doc)
                THEN <<IndexReturn(doc, <<>>, <<>>)>> ELSE <<>>)
            \o d.returned

\* the sitemap fetches of a crawl of the fixed site
SiteSitemap ==
    /\ pc = "sitemap"
    /\ Len(stack) < MaxSitemapDepth
    /\ LET a == SiteAnswer(SitemapCallUrl)
       IN /\ SitemapWith(a.o, a.doc)
          /\ smReturned' = SitemapReturned(a.o, a.doc)
    /\ fetchLog' = Append(fetchLog, SitemapCallUrl)
    /\ UNCHANGED <<site, sitePages, phase, saved, auditVars, reqs, unitVars>>

\* lines 371-397: analyzePage returned the page with these <a> elements
PageOk(pageUrl, anchors) ==
    LET followed == FollowedUrls(PageLinks(anchors, pageUrl), pageUrl,
                                 crawledUrls \cup {pageUrl})
    IN /\ results' = PushResult(results, pageUrl)
       /\ crawledUrls' = crawledUrls \cup {pageUrl}
       /\ urlsToCrawl' = SetAddAll(urlsToCrawl, followed)
       /\ inserted' = inserted \o followed
       /\ log' = log \o <<FetchEvent("page", pageUrl, TRUE),
                           SleepEvent(PolitenessDelay(robotsTxt))>>
       /\ qi' = qi + 1

\* lines 398-400 as if the try block enclosed the loop: the first failure ends it
M_PageFailed(pageUrl) ==
    /\ log' = Append(log, FetchEvent("page", pageUrl, FALSE))
    /\ qi' = Len(queue) + 1
    /\ UNCHANGED <<results, crawledUrls, urlsToCrawl, inserted>>

\* lines 398-400 with the failed URL tried again
M_PageFailedRetry(pageUrl) ==
    /\ log' = Append(log, FetchEvent("page", pageUrl, FALSE))
    /\ qi' = qi
    /\ UNCHANGED <<results, crawledUrls, urlsToCrawl, inserted>>

\* lines 398-400: analyzePage threw; the catch block logs and the loop goes on
PageFailed(pageUrl) ==
    /\ log' = Append(log, FetchEvent("page", pageUrl, FALSE))
    /\ qi' = qi + 1
    /\ UNCHANGED <<results, crawledUrls, urlsToCrawl, inserted>>

\* one iteration of the loop of crawlSite lines 359-401 that fetches the
\* page, answered with outcome o and, if it is ok, a page with these anchors
CrawlPageWith(o, anchors) ==
    /\ InitBrowser(o)
    /\ fetches' = fetches + 1
    /\ IF o = "ok" THEN PageOk(queue[qi], anchors) ELSE PageFailed(queue[qi])
    /\ UNCHANGED <<cfg, pc, robotsTxt, sitemapUrls, smIdx, smDocs, stack, queue, response,
                   robotsFetch>>

\* lines 365-367: the URL is in crawledUrls already
CrawlSkip ==
    /\ qi' = qi + 1
    /\ UNCHANGED <<browser, launched, running, closeCalls, urlsToCrawl,
                   crawledUrls, results, inserted, log, fetches>>
    /\ UNCHANGED <<cfg, pc, robotsTxt, sitemapUrls, smIdx, smDocs, stack, queue, response,
                   robotsFetch>>

\* one iteration of the loop, the page chosen at the fetch
CrawlPage ==
    /\ pc = "crawl"
    /\ qi <= Len(queue)
    /\ ~BudgetReached(crawledUrls, cfg.maxPages)
    /\ IF queue[qi] \in crawledUrls THEN CrawlSkip
       ELSE \E o \in FetchOutcomes, anchors \in SeqUpTo(Anchors, MaxLinks) :
               CrawlPageWith(o, anchors)
    /\ UNCHANGED otherVars

\* one iteration of the loop of a crawl of the fixed site
SiteCrawlPage ==
    /\ pc = "crawl"
    /\ qi <= Len(queue)
    /\ ~BudgetReached(crawledUrls, cfg.maxPages)
    /\ IF queue[qi] \in crawledUrls THEN CrawlSkip
       ELSE CrawlPageWith(PageAnswer(queue[qi]).o, PageAnswer(queue[qi]).anchors)
    /\ UNCHANGED otherVars

\* the loop ends (line 359 or 360-363), crawlSite returns (line 403) and the
\* route runs the audit (routes lines 53-56)
CrawlReturn ==
    /\ pc = "crawl"
    /\ qi > Len(queue) \/ BudgetReached(crawledUrls, cfg.maxPages)
    /\ pc' = "close"
    /\ UNCHANGED <<cfg, browser, launched, running, closeCalls, robotsTxt,
                   sitemapUrls, smIdx, smDocs, stack, urlsToCrawl, queue, qi, crawledUrls,
                   results, inserted, log, response, fetches, robotsFetch, otherVars>>

\* routes lines 58-66: closeBrowser inside the try block, then the answer
RouteClose ==
    /\ pc = "close"
    /\ \E ok \in BOOLEAN :
          /\ CloseBrowser(ok)
          /\ IF CloseThrows(ok)
             THEN pc' = "catch" /\ UNCHANGED response
             ELSE /\ pc' = "done"
                  /\ response' = [status |-> 200, success |-> TRUE,
                                   totalPages |-> Len(results)]
    /\ UNCHANGED <<cfg, robotsTxt, sitemapUrls, smIdx, smDocs, stack, urlsToCrawl, queue,
                   qi, crawledUrls, results, inserted, fetches, robotsFetch, otherVars>>

\* routes lines 67-77: the catch block
RouteCatch ==
    /\ pc = "catch"
    /\ \E ok \in BOOLEAN : CloseBrowser(ok)
    /\ response' = [status |-> 500, success |-> FALSE, totalPages |-> 0]
    /\ pc' = "done"
    /\ UNCHANGED <<cfg, robotsTxt, sitemapUrls, smIdx, smDocs, stack, urlsToCrawl, queue,
                   qi, crawledUrls, results, inserted, fetches, robotsFetch, otherVars>>

Next ==
    \/ Request
    \/ Robots
    \/ Sitemap
    \/ CrawlPage
    \/ CrawlReturn
    \/ RouteClose
    \/ RouteCatch

Spec == Init /\ [][Next]_vars

(* The sitemap resolution of one crawl of a fixed site: the state in which
   crawlSite, called for Seed with followSitemap and without respectRobotsTxt,
   reaches line 350, and the fetchSitemap calls that follow. *)
InitSite ==
    /\ cfg = [url |-> Seed, maxPages |-> MaxPagesBound, followSitemap |-> TRUE,
              respectRobotsTxt |-> FALSE, timeout |-> Null]
    /\ pc = "sitemap"
    /\ browser = 0
    /\ launched = 0
    /\ running = {}
    /\ closeCalls = <<>>
    /\ robotsTxt = EmptyPolicy
    /\ sitemapUrls = SitemapSeeds(EmptyPolicy, Origin(Seed))
    /\ smIdx = 1
    /\ smDocs = 0
    /\ stack = <<>>
    /\ urlsToCrawl = <<Seed>>
    /\ queue = <<>>
    /\ qi = 1
    /\ crawledUrls = {}
    /\ results = <<>>
    /\ inserted = <<Seed>>
    /\ log = <<>>
    /\ response = NoResponse
    /\ fetches = 0
    /\ robotsFetch = "skip"
    /\ site \in Sites
    /\ sitePages \in ServedPages
    /\ smReturned = <<>>
    /\ fetchLog = <<>>
    /\ phase = 0
    /\ saved = NoSaved
    /\ AuditIdle /\ ReqsIdle /\ UnitIdle

NextSite == SiteSitemap

SpecSite == InitSite /\ [][NextSite]_vars

(* Two crawls of the same fixed site, one after the other: first crawlSite
   with respectRobotsTxt whose robots.txt fetch fails, then crawlSite without
   respectRobotsTxt.  Both start where crawlSite reaches line 336; what the
   first one fetched and returned is saved when the second one starts. *)
InitTwice ==
    /\ cfg \in {c \in Configs : c.url = Seed /\ c.respectRobotsTxt}
    /\ pc = "robots"
    /\ browser = 0
    /\ launched = 0
    /\ running = {}
    /\ closeCalls = <<>>
    /\ robotsTxt = EmptyPolicy
    /\ sitemapUrls = <<>>
    /\ smIdx = 1
    /\ smDocs = 0
    /\ stack = <<>>
    /\ urlsToCrawl = <<Seed>>
    /\ queue = <<>>
    /\ qi = 1
    /\ crawledUrls = {}
    /\ results = <<>>
    /\ inserted = <<Seed>>
    /\ log = <<>>
    /\ response = NoResponse
    /\ fetches = 0
    /\ robotsFetch = "none"
    /\ site \in TwiceSites
    /\ sitePages \in SitesOfPages
    /\ smReturned = <<>>
    /\ fetchLog = <<>>
    /\ phase = 1
    /\ saved = NoSaved
    /\ AuditIdle /\ ReqsIdle /\ UnitIdle

\* crawlSite lines 336-348 of the two crawls: the robots.txt fetch of the
\* first one fails, whatever robots.txt holds; the second one has none
TwiceRobots ==
    /\ pc = "robots"
    /\ IF phase = 1
       THEN \E o \in FetchOutcomes \cap RobotsFailures, lines \in UnreadRobots :
               RobotsWith(o, lines)
       ELSE RobotsWith("skip", <<>>)
    /\ UNCHANGED otherVars

\* the first crawl has returned: its browser is closed and the second crawl
\* starts (crawlSite lines 323-334)
SecondCrawl ==
    /\ pc = "close"
    /\ phase = 1
    /\ phase' = 2
    /\ saved' = [results |-> results, log |-> log, fetchLog |-> fetchLog]
    /\ cfg' = [cfg EXCEPT !.respectRobotsTxt = FALSE]
    /\ pc' = "robots"
    /\ browser' = 0
    /\ running' = running \ {browser}
    /\ closeCalls' = IF browser # 0 THEN [closeCalls EXCEPT ![browser] = @ + 1]
                     ELSE closeCalls
    /\ robotsTxt' = EmptyPolicy
    /\ sitemapUrls' = <<>>
    /\ smIdx' = 1
    /\ smDocs' = 0
    /\ stack' = <<>>
    /\ urlsToCrawl' = <<cfg.url>>
    /\ queue' = <<>>
    /\ qi' = 1
    /\ crawledUrls' = {}
    /\ results' = <<>>
    /\ inserted' = <<cfg.url>>
    /\ log' = <<>>
    /\ fetches' = 0
    /\ robotsFetch' = "none"
    /\ smReturned' = <<>>
    /\ fetchLog' = <<>>
    /\ UNCHANGED <<launched, response, site, sitePages, auditVars, reqs, unitVars>>

NextTwice ==
    \/ TwiceRobots
    \/ SiteSitemap
    \/ SiteCrawlPage
    \/ CrawlReturn
    \/ SecondCrawl

SpecTwice == InitTwice /\ [][NextTwice]_vars

(* SEOAuditService.audit alone, on a list of page analyses with one page for
   a URL, as crawlSite and analyzePage return them *)
AuditLists ==
    {l \in SeqUpTo(SamplePages, MaxAuditPages) :
        \A i, j \in 1..Len(l) : i # j => l[i].url # l[j].url}

InitAudit ==
    /\ cfg = [url |-> Seed, maxPages |-> MaxPagesBound, followSitemap |-> TRUE,
              respectRobotsTxt |-> FALSE, timeout |-> Null]
    /\ pc = "close"
    /\ browser = 0
    /\ launched = 0
    /\ running = {}
    /\ closeCalls = <<>>
    /\ robotsTxt = EmptyPolicy
    /\ sitemapUrls = <<>>
    /\ smIdx = 1
    /\ smDocs = 0
    /\ stack = <<>>
    /\ urlsToCrawl = <<>>
    /\ queue = <<>>
    /\ qi = 1
    /\ crawledUrls = {}
    /\ results = <<>>
    /\ inserted = <<>>
    /\ log = <<>>
    /\ response = NoResponse
    /\ fetches = 0
    /\ robotsFetch = "none"
    /\ SiteIdle /\ ReqsIdle /\ UnitIdle
    /\ auditPages \in AuditLists
    /\ report = NoReport

\* routes line 56 and line 111: seoAuditService.audit(pages, url)
Audit ==
    /\ ~report.some
    /\ report' = AuditReport(auditPages)
    /\ UNCHANGED <<requestVars, browser, launched, running, closeCalls, siteVars,
                   auditPages, reqs, unitVars>>

NextAudit == Audit

SpecAudit == InitAudit /\ [][NextAudit]_vars

TypeOK ==
    /\ pc \in {"request", "call", "thrown", "robots", "sitemap", "crawl", "close",
              "catch", "done"}
    /\ browser \in 0..launched
    /\ Len(closeCalls) = launched

(* Two requests served at the same time by the singleton seoCrawlerService
   (seo-crawler-service.ts line 408), each followed from one await to the
   next: an /audit request makes some fetchPage calls whose failures
   crawlSite absorbs, an /analyze-page request makes one whose failure
   reaches the catch block of the route; both end with closeBrowser.
   reqs[r].holds is the local browser of the fetchPage call in progress (line
   90), reqs[r].closing the browser whose close() the request awaits. *)
Reqs == {1, 2}

NewRequest(kind, left) ==
    [kind |-> kind, pc |-> "init", holds |-> 0, closing |-> 0, left |-> left, status |-> 0]

NewRequests ==
    {NewRequest("audit", n) : n \in 1..MaxConcFetches} \cup {NewRequest("page", 1)}

InitConc ==
    /\ cfg = [url |-> Seed, maxPages |-> MaxPagesBound, followSitemap |-> TRUE,
              respectRobotsTxt |-> FALSE, timeout |-> Null]
    /\ pc = "request"
    /\ browser = 0
    /\ launched = 0
    /\ running = {}
    /\ closeCalls = <<>>
    /\ robotsTxt = EmptyPolicy
    /\ sitemapUrls = <<>>
    /\ smIdx = 1
    /\ smDocs = 0
    /\ stack = <<>>
    /\ urlsToCrawl = <<>>
    /\ queue = <<>>
    /\ qi = 1
    /\ crawledUrls = {}
    /\ results = <<>>
    /\ inserted = <<>>
    /\ log = <<>>
    /\ response = NoResponse
    /\ fetches = 0
    /\ robotsFetch = "none"
    /\ SiteIdle /\ AuditIdle /\ UnitIdle
    /\ reqs \in [Reqs -> NewRequests]

\* the fetchPage call of request r has returned (ok) or thrown
FetchEnded(r, ok) ==
    LET q == reqs[r]
        next == IF q.kind = "page" /\ ~ok THEN "catch"
                ELSE IF q.left > 1 THEN "init" ELSE "close"
    IN [q EXCEPT !.pc = next, !.holds = 0, !.left = q.left - 1]

\* initBrowser up to its await, lines 56-58: this.browser is tested
ReqInitBrowser(r) ==
    /\ reqs[r].pc = "init"
    /\ reqs' = [reqs EXCEPT ![r] =
                   IF browser = 0 THEN [@ EXCEPT !.pc = "launch"]
                   ELSE [@ EXCEPT !.pc = "newPage", !.holds = browser]]
    /\ UNCHANGED <<browser, launched, running, closeCalls>>

\* puppeteer.launch settles, lines 58-69: this.browser is assigned
ReqLaunched(r, ok) ==
    /\ reqs[r].pc = "launch"
    /\ IF ok
       THEN /\ launched' = launched + 1
            /\ browser' = launched + 1
            /\ running' = running \cup {launched + 1}
            /\ closeCalls' = Append(closeCalls, 0)
            /\ reqs' = [reqs EXCEPT ![r] = [@ EXCEPT !.pc = "newPage",
                                                      !.holds = launched + 1]]
       ELSE /\ reqs' = [reqs EXCEPT ![r] = FetchEnded(r, FALSE)]
            /\ UNCHANGED <<browser, launched, running, closeCalls>>

\* a close() of browser b has been invoked and has not settled
BeingClosed(b) == \E q \in Reqs : reqs[q].closing = b

\* browser.newPage(), line 91: it rejects when the browser has been closed
\* or is being closed
ReqNewPage(r) ==
    /\ reqs[r].pc = "newPage"
    /\ reqs' = [reqs EXCEPT ![r] =
                   IF reqs[r].holds \in running /\ ~BeingClosed(reqs[r].holds)
                   THEN [@ EXCEPT !.pc = "goto"]
                   ELSE FetchEnded(r, FALSE)]
    /\ UNCHANGED <<browser, launched, running, closeCalls>>

\* lines 95-128: the navigation and the reading of the page; they reject
\* when the browser has been closed or is being closed
ReqNavigate(r, ok) ==
    /\ reqs[r].pc = "goto"
    /\ ok => reqs[r].holds \in running /\ ~BeingClosed(reqs[r].holds)
    /\ reqs' = [reqs EXCEPT ![r] = FetchEnded(r, ok)]
    /\ UNCHANGED <<browser, launched, running, closeCalls>>

\* closeBrowser up to its await, lines 76-77, called from the try block
\* (routes lines 59 and 114) or from the catch block (lines 70 and 123)
ReqCloseBrowser(r) ==
    /\ reqs[r].pc \in {"close", "catch"}
    /\ IF browser = 0
       THEN /\ reqs' = [reqs EXCEPT ![r] =
                          [@ EXCEPT !.pc = "done",
                                    !.status = IF reqs[r].pc = "close" THEN 200 ELSE 500]]
            /\ UNCHANGED closeCalls
       ELSE /\ reqs' = [reqs EXCEPT ![r] =
                          [@ EXCEPT !.pc = IF reqs[r].pc = "close" THEN "closing"
                                           ELSE "catchClosing",
                                    !.closing = browser]]
            /\ closeCalls' = [closeCalls EXCEPT ![browser] = @ + 1]
    /\ UNCHANGED <<browser, launched, running>>

\* browser.close() has settled.  Resolved: the browser runs no more and
\* line 78 sets this.browser = null.  Rejected: the browser runs on,
\* closeBrowser throws at line 77 and line 78 is skipped; thrown in the try
\* block, the handler enters its catch block (routes lines 67-70, 120-123),
\* and thrown in the catch block, .catch swallows it and the handler
\* answers 500
ReqBrowserClosed(r, ok) ==
    /\ reqs[r].pc \in {"closing", "catchClosing"}
    /\ browser' = IF ok THEN 0 ELSE browser
    /\ running' = IF ok THEN running \ {reqs[r].closing} ELSE running
    /\ reqs' = [reqs EXCEPT ![r] =
                   IF ~ok /\ reqs[r].pc = "closing"
                   THEN [@ EXCEPT !.pc = "catch", !.closing = 0]
                   ELSE [@ EXCEPT !.pc = "done", !.closing = 0,
                                  !.status = IF reqs[r].pc = "closing" THEN 200
                                             ELSE 500]]
    /\ UNCHANGED <<launched, closeCalls>>

ConcInitBrowser == (\E r \in Reqs : ReqInitBrowser(r)) /\ UNCHANGED <<requestVars, siteVars, auditVars, unitVars>>
ConcLaunched == (\E r \in Reqs, ok \in BOOLEAN : ReqLaunched(r, ok)) /\ UNCHANGED <<requestVars, siteVars, auditVars, unitVars>>
ConcNewPage == (\E r \in Reqs : ReqNewPage(r)) /\ UNCHANGED <<requestVars, siteVars, auditVars, unitVars>>
ConcNavigate == (\E r \in Reqs, ok \in BOOLEAN : ReqNavigate(r, ok)) /\ UNCHANGED <<requestVars, siteVars, auditVars, unitVars>>
ConcCloseBrowser == (\E r \in Reqs : ReqCloseBrowser(r)) /\ UNCHANGED <<requestVars, siteVars, auditVars, unitVars>>
ConcBrowserClosed == (\E r \in Reqs, ok \in BOOLEAN : ReqBrowserClosed(r, ok)) /\ UNCHANGED <<requestVars, siteVars, auditVars, unitVars>>

NextConc ==
    \/ ConcInitBrowser
    \/ ConcLaunched
    \/ ConcNewPage
    \/ ConcNavigate
    \/ ConcCloseBrowser
    \/ ConcBrowserClosed

SpecConc == InitConc /\ [][NextConc]_vars

(* fetchRobotsTxt alone: the state in which crawlSite, called for Seed with
   respectRobotsTxt, reaches line 338, on a site whose answer for robots.txt
   is fixed: a response with an HTTP status and the directive lines of its
   body, or a failure of the fetch *)
\* crawl-delay lines whose value has a sign or is hexadecimal
PrefixedDelayLines ==
    {CrawlDelayLine(<<"-", "5">>), CrawlDelayLine(<<"+", "5">>),
     CrawlDelayLine(<<"0", "x", "1", "0">>)}

RobotsDocs ==
    {[o |-> "ok", status |-> st, lines |-> l] :
        st \in {200, 404},
        l \in SeqUpTo(RobotsLines \cup PrefixedDelayLines, MaxRobotsLines)}
    \cup {[o |-> f, status |-> 0, lines |-> <<>>] : f \in RobotsFailures}

InitRobots ==
    /\ cfg \in {c \in Configs : c.url = Seed /\ c.respectRobotsTxt}
    /\ pc = "robots"
    /\ browser = 0
    /\ launched = 0
    /\ running = {}
    /\ closeCalls = <<>>
    /\ robotsTxt = EmptyPolicy
    /\ sitemapUrls = <<>>
    /\ smIdx = 1
    /\ smDocs = 0
    /\ stack = <<>>
    /\ urlsToCrawl = <<Seed>>
    /\ queue = <<>>
    /\ qi = 1
    /\ crawledUrls = {}
    /\ results = <<>>
    /\ inserted = <<Seed>>
    /\ log = <<>>
    /\ response = NoResponse
    /\ fetches = 0
    /\ robotsFetch = "none"
    /\ SiteIdle /\ AuditIdle /\ ReqsIdle
    /\ robotsDoc \in RobotsDocs
    /\ analysis = NoAnalysis

\* crawlSite lines 336-348 on the fixed site: fetchPage returns html and
\* statusCode (lines 103-124), fetchRobotsTxt reads html (line 293)
DocRobots ==
    /\ pc = "robots"
    /\ RobotsWith(robotsDoc.o, robotsDoc.lines)
    /\ UNCHANGED otherVars

NextRobots == DocRobots

SpecRobots == InitRobots /\ [][NextRobots]_vars

(* crawlSite called with a CrawlConfig (lines 9-16), which may carry a
   timeout and a seed that is no URL, without respectRobotsTxt, on a fixed
   site whose sitemap.xml is a urlset or fails and whose off-site page has
   links as well.  The caller is the /audit route, which validates the URL
   and forwards no timeout (routes lines 25-51), or one that calls crawlSite
   with the CrawlConfig as it is. *)
ConfigTimeouts == {Null, <<5000>>}

DirectConfigs ==
    [url : {Seed, Malformed},
     maxPages : 0..MaxPagesBound,
     followSitemap : BOOLEAN,
     respectRobotsTxt : {FALSE},
     timeout : ConfigTimeouts]

DirectSites ==
    {s \in Sites :
        /\ s[ChildSitemap] = NoSite[ChildSitemap]
        /\ s[ChildSitemap2] = NoSite[ChildSitemap2]
        /\ ~IsSitemapIndex(s[RootSitemap].doc)}

DirectPageAnswers(u) == IF u = Offsite THEN PageAnswers(Seed) ELSE PageAnswers(u)

DirectPages ==
    {f \in [SitePageUrls -> UNION {DirectPageAnswers(u) : u \in SitePageUrls}] :
        \A u \in SitePageUrls : f[u] \in DirectPageAnswers(u)}

InitDirect ==
    /\ cfg \in DirectConfigs
    /\ pc \in {"request", "call"}
    /\ pc = "request" => cfg.timeout = Null
    /\ browser = 0
    /\ launched = 0
    /\ running = {}
    /\ closeCalls = <<>>
    /\ robotsTxt = EmptyPolicy
    /\ sitemapUrls = <<>>
    /\ smIdx = 1
    /\ smDocs = 0
    /\ stack = <<>>
    /\ urlsToCrawl = <<>>
    /\ queue = <<>>
    /\ qi = 1
    /\ crawledUrls = {}
    /\ results = <<>>
    /\ inserted = <<>>
    /\ log = <<>>
    /\ response = NoResponse
    /\ fetches = 0
    /\ robotsFetch = "none"
    /\ site \in DirectSites
    /\ sitePages \in DirectPages
    /\ smReturned = <<>>
    /\ fetchLog = <<>>
    /\ phase = 0
    /\ saved = NoSaved
    /\ AuditIdle /\ ReqsIdle /\ UnitIdle

\* crawlSite lines 323-334, called with the CrawlConfig as it is: line 331
\* throws on a seed that is no URL, and the frontier starts with the seed
DirectCall ==
    /\ pc = "call"
    /\ IF CrawlSiteThrows(cfg)
       THEN /\ pc' = "thrown"
            /\ UNCHANGED <<urlsToCrawl, inserted>>
       ELSE /\ urlsToCrawl' = <<cfg.url>>
            /\ inserted' = <<cfg.url>>
            /\ pc' = "robots"
    /\ UNCHANGED <<cfg, browser, launched, running, closeCalls, robotsTxt,
                   sitemapUrls, smIdx, smDocs, stack, queue, qi, crawledUrls, results, log,
                   response, fetches, robotsFetch, otherVars>>

\* what analyzePage returns (lines 228-245): the url and the links of
\* lines 172-194
Analysis(pageUrl, anchors) ==
    [some |-> TRUE, url |-> pageUrl, links |-> PageLinks(anchors, pageUrl)]

\* one iteration of the loop of a crawl of the fixed site, with the
\* analysis that analyzePage returned to line 370
DirectCrawlPage ==
    /\ pc = "crawl"
    /\ qi <= Len(queue)
    /\ ~BudgetReached(crawledUrls, cfg.maxPages)
    /\ IF queue[qi] \in crawledUrls
       THEN CrawlSkip /\ UNCHANGED analysis
       ELSE LET a == PageAnswer(queue[qi])
            IN /\ CrawlPageWith(a.o, a.anchors)
               /\ analysis' = IF a.o = "ok" THEN Analysis(queue[qi], a.anchors)
                              ELSE analysis
    /\ UNCHANGED <<siteVars, auditVars, reqs, robotsDoc>>

NextDirect ==
    \/ Request
    \/ DirectCall
    \/ Robots
    \/ SiteSitemap
    \/ DirectCrawlPage
    \/ CrawlReturn

SpecDirect == InitDirect /\ [][NextDirect]_vars

-----------------------------------------------------------------------------
(* Vocabulary of the properties *)

IsPageEvent(e) == e.kind = "page"
IsOkPageEvent(e) == e.kind = "page" /\ e.ok
IsFailedPageEvent(e) == e.kind = "page" /\ ~e.ok

UrlsOf(events) == [i \in 1..Len(events) |-> events[i].url]

PageEvents == SelectSeq(log, IsPageEvent)
FetchedPages == UrlsOf(PageEvents)
SucceededPages == UrlsOf(SelectSeq(log, IsOkPageEvent))
FailedPages == UrlsOf(SelectSeq(log, IsFailedPageEvent))

\* crawlSite has been called, and it has returned
CrawlStarted == pc # "request" /\ IsValidUrl(cfg.url)
CrawlReturned == pc \in {"close", "catch", "done"} /\ IsValidUrl(cfg.url)

IsPrefix(s, t) == Len(s) <= Len(t) /\ SubSeq(t, 1, Len(s)) = s

NoDuplicates(s) == \A i, j \in 1..Len(s) : i # j => s[i] # s[j]

\* the elements of s in the order of their first occurrence
RECURSIVE FirstsFrom(_, _)
FirstsFrom(s, i) ==
    IF i > Len(s) THEN <<>>
    ELSE (IF \E j \in 1..(i - 1) : s[j] = s[i] THEN <<>> ELSE <<s[i]>>)
         \o FirstsFrom(s, i + 1)

FirstOccurrences(s) == FirstsFrom(s, 1)

\* the frontier at the start of the loop: the URLs seeded, in insertion order
Seeded == SubSeq(FirstOccurrences(inserted), 1, Len(queue))

\* a Disallow pattern is a path prefix; an empty pattern disallows nothing
PathMatches(pattern, path) == pattern # <<>> /\ IsPrefix(pattern, path)

CloseFailed == \E i \in 1..Len(log) : log[i].kind = "close" /\ ~log[i].ok

\* the URLs of the frontier that the loop has not dequeued
Undequeued ==
    IF pc \in {"request", "robots", "sitemap"} THEN Range(urlsToCrawl)
    ELSE {queue[i] : i \in qi..Len(queue)}
         \cup {urlsToCrawl[i] : i \in (Len(queue) + 1)..Len(urlsToCrawl)}

RECURSIVE Flatten(_)
Flatten(ss) == IF ss = <<>> THEN <<>> ELSE Head(ss) \o Flatten(Tail(ss))

\* on the fixed site: the sitemap at u has no child to resolve, and what
\* fetchSitemap(u) yields then
IsLeaf(u) == SiteAnswer(u).o # "ok" \/ ~HasChildren(SiteAnswer(u).doc)
LeafUrls(u) == IF SiteAnswer(u).o = "ok" THEN LeafResult(SiteAnswer(u).doc) ELSE <<>>

\* the root sitemap is an index and each of its children is a leaf
RootOverLeaves ==
    /\ site[RootSitemap].o = "ok"
    /\ IsSitemapIndex(site[RootSitemap].doc)
    /\ \A i \in 1..Len(DocUrls(site[RootSitemap].doc)) :
          IsLeaf(DocUrls(site[RootSitemap].doc)[i])

RootChildren == DocUrls(site[RootSitemap].doc)

\* the URLs of the fetchSitemap calls in progress, the outermost first
SitemapCallChain ==
    IF pc # "sitemap" THEN <<>>
    ELSE <<sitemapUrls[smIdx]>>
         \o [k \in 1..Len(stack) |->
                stack[Len(stack) + 1 - k].urls[stack[Len(stack) + 1 - k].i]]

-----------------------------------------------------------------------------
(* Properties *)

(* C1: with maxPages >= 1, the list crawlSite builds never holds more than
   maxPages records and never holds two records of the same URL. *)
C1_AtMostMaxPagesUnique ==
    cfg.maxPages >= 1 =>
        /\ Len(results) <= cfg.maxPages
        /\ NoDuplicates(results)

\* the budget cut a longer frontier short, and a URL was inserted twice
C1_Witness ==
    /\ pc = "done" /\ response.status = 200
    /\ cfg.maxPages = 2 /\ Len(results) = 2
    /\ Len(queue) = 3
    /\ ~NoDuplicates(inserted)

(* C2: when the crawl has returned with budget left, every URL of the
   frontier, discovered links included, has been fetched as a page. *)
C2_DiscoveredLinksFetched ==
    (CrawlReturned /\ ~BudgetReached(crawledUrls, cfg.maxPages)) =>
        \A i \in 1..Len(urlsToCrawl) :
            \E j \in 1..Len(FetchedPages) : FetchedPages[j] = urlsToCrawl[i]

(* C3: a failed page does not end the crawl: when crawlSite returns, every
   URL dequeued before the loop ended was attempted, the loop ended only at
   the end of the queue or at the budget, the result holds the succeeded
   URLs in the order of their fetches, and no failed URL is in it. *)
C3_FailureIsolated ==
    CrawlReturned =>
        /\ Len(PageEvents) = qi - 1
        /\ qi > Len(queue) \/ Len(results) >= cfg.maxPages
        /\ results = SucceededPages
        /\ \A i \in 1..Len(FailedPages) :
              \A j \in 1..Len(results) : results[j] # FailedPages[i]

\* the second of three URLs failed, the first and the third are returned
C3_Witness ==
    /\ pc = "done" /\ response.status = 200
    /\ Len(queue) = 3 /\ Len(PageEvents) = 3
    /\ PageEvents[1].ok /\ ~PageEvents[2].ok /\ PageEvents[3].ok
    /\ results = <<queue[1], queue[3]>>
    /\ response.totalPages = 2

(* C4: when more URLs were seeded than maxPages and no page fetch failed,
   crawlSite returns exactly maxPages records: the first maxPages URLs in
   the order of their first insertion, the seed URL first. *)
C4_BudgetCutsInInsertionOrder ==
    (CrawlReturned /\ Len(queue) > cfg.maxPages /\ FailedPages = <<>>) =>
        /\ Len(results) = cfg.maxPages
        /\ results = SubSeq(Seeded, 1, cfg.maxPages)
        /\ Seeded[1] = cfg.url

\* three URLs seeded, two returned, and the pages had a link to a new URL
C4_Witness ==
    /\ pc = "done" /\ response.status = 200
    /\ cfg.maxPages = 2 /\ Len(queue) = 3 /\ FailedPages = <<>>
    /\ results = <<Seed, queue[2]>>
    /\ Len(urlsToCrawl) > Len(queue)

(* C5: the records are in the order in which their URLs were dequeued, and
   the URLs are dequeued in the order of their first insertion into the
   frontier. *)
C5_DequeuedInInsertionOrder ==
    CrawlStarted =>
        /\ results = SucceededPages
        /\ IsPrefix(FetchedPages, FirstOccurrences(inserted))

\* the seed and a sitemap URL were fetched in that order, the sitemap URL
\* was inserted twice, and a link was discovered
C5_Witness ==
    /\ pc = "done"
    /\ Len(results) = 2 /\ results[1] = Seed /\ results[2] # Seed
    /\ Len(FetchedPages) = 3
    /\ ~NoDuplicates(inserted)
    /\ Len(urlsToCrawl) > Len(queue)

(* C6: with respectRobotsTxt, no page of the site is fetched whose path
   matches a Disallow pattern of the robots policy. *)
C6_DisallowRespected ==
    cfg.respectRobotsTxt =>
        \A i \in 1..Len(FetchedPages) :
            \A k \in 1..Len(robotsTxt.disallowed) :
                FetchedPages[i].host = cfg.url.host =>
                    ~PathMatches(robotsTxt.disallowed[k], FetchedPages[i].path)

(* C7: every successful page fetch is followed at once, before any other
   page fetch, by a sleep of the crawl delay of the robots policy in
   seconds, or of one second when the policy has none; and every sleep
   follows a successful page fetch, so none precedes the first fetch. *)
C7_SleepAfterEachPage ==
    \A i \in 1..Len(log) :
        /\ IsOkPageEvent(log[i]) =>
              /\ i < Len(log)
              /\ log[i + 1].kind = "sleep"
              /\ log[i + 1].ms = IF robotsTxt.crawlDelay = <<>> THEN 1000
                                  ELSE robotsTxt.crawlDelay[1] * 1000
        /\ log[i].kind = "sleep" => i > 1 /\ IsOkPageEvent(log[i - 1])

\* robots.txt asked for 2 seconds and two pages were fetched
C7_Witness ==
    /\ pc = "done"
    /\ robotsTxt.crawlDelay = <<2>>
    /\ Len(log) >= 4
    /\ IsOkPageEvent(log[1]) /\ log[2].kind = "sleep" /\ log[2].ms = 2000
    /\ IsOkPageEvent(log[3]) /\ log[4].kind = "sleep" /\ log[4].ms = 2000

(* C8: no two page fetches follow each other without a politeness sleep
   between them, whether the first of them succeeded or failed. *)
C8_SleepBetweenAllFetches ==
    \A i \in 1..(Len(log) - 1) :
        IsPageEvent(log[i]) => ~IsPageEvent(log[i + 1])

(* C9: when the request has completed, every browser launched for it has
   had close() invoked exactly once and is no longer running. *)
C9_ClosedExactlyOnce ==
    pc = "done" =>
        \A b \in 1..launched : closeCalls[b] = 1 /\ b \notin running

(* C10: when close() failed after the crawl and the audit had completed,
   the request still answers with the audit report. *)
C10_CloseFailureNotMasked ==
    (pc = "done" /\ \E i \in 1..Len(log) : log[i].kind = "close" /\ ~log[i].ok) =>
        response.status = 200 /\ response.success


-----------------------------------------------------------------------------
(* Properties of the request that starts with a malformed URL, of the
   robots.txt fetch and of the crawl loop *)

(* C12: a crawl whose seed URL is malformed fails at once: crawlSite,
   called with it, throws, and the /audit route answers 400 without calling
   crawlSite; in both cases nothing else happens: no robots, sitemap or
   page fetch is issued, no browser is launched and the frontier is never
   seeded. *)
C12_MalformedFailsBeforeAnyFetch ==
    cfg.url = Malformed =>
        /\ fetches = 0 /\ fetchLog = <<>> /\ log = <<>> /\ robotsFetch = "none"
        /\ launched = 0 /\ browser = 0
        /\ urlsToCrawl = <<>> /\ results = <<>>
        /\ pc \in {"request", "call", "done", "thrown"}
        /\ pc = "done" <=> response.status = 400
        /\ pc # "done" => response = NoResponse

\* crawlSite, called with the malformed seed, has thrown
C12_Witness ==
    cfg.url = Malformed /\ pc = "thrown" /\ fetches = 0 /\ launched = 0

(* C13: when the robots.txt fetch has failed, fetchRobotsTxt has returned
   the empty policy and the crawl has gone on: the request is in the sitemap
   resolution, in the crawl loop or past it, it reaches the catch block only
   after a failed close, and when crawlSite has returned every sitemap URL
   was resolved and the loop ran to the end of the queue or to the budget. *)
C13_RobotsFailureNeverAborts ==
    robotsFetch \in RobotsFailures =>
        /\ robotsTxt = EmptyPolicy
        /\ pc \in {"sitemap", "crawl", "close", "catch", "done"}
        /\ pc = "catch" => CloseFailed
        /\ (pc = "done" /\ ~CloseFailed) => response.status = 200
        /\ CrawlReturned =>
              /\ cfg.followSitemap => smIdx = Len(sitemapUrls) + 1
              /\ qi > Len(queue) \/ BudgetReached(crawledUrls, cfg.maxPages)

\* the navigation to robots.txt failed, a sitemap document was read, two
\* pages were crawled and the report was sent
C13_Witness ==
    /\ robotsFetch = "navfail"
    /\ pc = "done" /\ response.status = 200
    /\ smDocs >= 1
    /\ Len(results) = 2

(* C19: no URL is fetched as a page twice in one crawl, whether the fetch
   succeeded or failed. *)
C19_NoPageFetchedTwice == NoDuplicates(FetchedPages)

\* a URL whose fetch failed had been handed to urlsToCrawl.add twice, and
\* the loop went on to another URL after it
C19_Witness ==
    /\ pc = "done"
    /\ Len(PageEvents) = 3 /\ ~PageEvents[2].ok
    /\ \E i, j \in 1..Len(inserted) :
          i # j /\ inserted[i] = PageEvents[2].url /\ inserted[j] = PageEvents[2].url

(* C20, as stated: urlsToCrawl and crawledUrls, the two sets of lines
   333-334, have no URL in common at any point of the crawl. *)
C20_PendingVisitedDisjoint == Range(urlsToCrawl) \cap crawledUrls = {}

(* C20, amended: a crawled URL stays in urlsToCrawl, which is never deleted
   from; the URLs that are still to be dequeued and crawledUrls have no URL
   in common, and every crawled URL is in urlsToCrawl. *)
C20_UndequeuedDisjointFromVisited ==
    /\ Undequeued \cap crawledUrls = {}
    /\ crawledUrls \subseteq Range(urlsToCrawl)

\* in the loop, after a crawled page whose link was added, with a URL left
C20_Witness ==
    /\ pc = "crawl"
    /\ Cardinality(crawledUrls) = 1
    /\ qi <= Len(queue)
    /\ Len(urlsToCrawl) > Len(queue)

-----------------------------------------------------------------------------
(* Properties of fetchSitemap on a fixed site *)

(* C15: a sitemap index call whose document lists only <sitemap><loc>
   entries returns the lists its children returned, concatenated in the
   order of the entries, and so none of its own <loc> values; when the
   children of the root index have no child themselves, crawlSite receives
   the URLs of the children's documents in that order. *)
C15_IndexReturnsChildrenConcatenated ==
    /\ \A k \in 1..Len(smReturned) :
          smReturned[k].doc.urlLocs = <<>> =>
              /\ Len(smReturned[k].rets) = Len(smReturned[k].doc.sitemapLocs)
              /\ smReturned[k].out = Flatten(smReturned[k].rets)
    /\ (pc = "crawl" /\ RootOverLeaves /\ site[RootSitemap].doc.urlLocs = <<>>) =>
          inserted = <<Seed>> \o Flatten([i \in 1..Len(RootChildren) |->
                                            LeafUrls(RootChildren[i])])

\* the root index lists two urlsets, one with PageA and one with Offsite
C15_Witness ==
    /\ pc = "crawl"
    /\ site[RootSitemap].doc = SitemapDoc(2, <<ChildSitemap, ChildSitemap2>>, <<>>)
    /\ smReturned = <<IndexReturn(site[RootSitemap].doc, <<<<PageA>>, <<Offsite>>>>,
                                  <<PageA, Offsite>>)>>
    /\ inserted = <<Seed, PageA, Offsite>>

(* C16: a child sitemap whose fetch fails contributes the empty list to the
   index call that resolves it, and nothing else is lost: when a child of
   the root index failed and no child has a child itself, crawlSite receives
   the URLs of the other children and starts the crawl loop with them. *)
C16_FailedChildContributesNothing ==
    /\ \A k \in 1..Len(smReturned) :
          \A i \in 1..Len(smReturned[k].rets) :
              SiteAnswer(DocUrls(smReturned[k].doc)[i]).o # "ok" =>
                  smReturned[k].rets[i] = <<>>
    /\ (pc = "crawl" /\ RootOverLeaves
          /\ \E i \in 1..Len(RootChildren) : SiteAnswer(RootChildren[i]).o # "ok") =>
          /\ \A i \in 1..Len(RootChildren) :
                \A k \in 1..Len(LeafUrls(RootChildren[i])) :
                    LeafUrls(RootChildren[i])[k] \in Range(urlsToCrawl)
          /\ queue = urlsToCrawl

\* the first child of the root index failed, the second one listed PageA
C16_Witness ==
    /\ pc = "crawl"
    /\ site[RootSitemap].doc.sitemapLocs = <<ChildSitemap, ChildSitemap2>>
    /\ site[ChildSitemap].o = "navfail"
    /\ Len(smReturned) = 1 /\ smReturned[1].rets = <<<<>>, <<PageA>>>>
    /\ queue = <<Seed, PageA>>

(* C17: fetchSitemap terminates on every site.  On a fixed site a call for a
   URL always reads the same document, so the call terminates only if no
   fetchSitemap call is ever made for a URL whose own call is still in
   progress: such a call repeats the calls that led to it, without end. *)
C17_NoCallInsideItsOwnResolution == NoDuplicates(SitemapCallChain)

-----------------------------------------------------------------------------
(* Properties of the audit *)

(* C18: the healthScore of every report audit returns, the one for the empty
   list of page analyses included, is an integer from 0 to 100. *)
C18_HealthScoreInRange ==
    report.some =>
        /\ report.healthScore.k = "num"
        /\ report.healthScore.d = 1
        /\ report.healthScore.n \in 0..100

-----------------------------------------------------------------------------
(* Properties of two requests served at the same time *)

(* C11: the browser a request is fetching with is its own: no other request
   is fetching with it, and it has not been closed under the request. *)
C11_BrowserOwnedExclusively ==
    \A r \in Reqs :
        reqs[r].holds # 0 =>
            /\ reqs[r].holds \in running
            /\ \A q \in Reqs \ {r} : reqs[q].holds # reqs[r].holds

-----------------------------------------------------------------------------
(* Properties of two crawls of the same site *)

(* C14: a crawl without respectRobotsTxt of the site that a crawl with
   respectRobotsTxt and a failed robots.txt fetch has crawled repeats it: at
   every point it has issued the same sitemap fetches and the same page
   fetches in the same order, slept the same default delay of one second
   after each page and collected the same records, and when it returns it
   has done all of what the first crawl did. *)
C14_UnreachableRobotsAsNoRobots ==
    phase = 2 =>
        /\ IsPrefix(fetchLog, saved.fetchLog)
        /\ IsPrefix(log, saved.log)
        /\ IsPrefix(results, saved.results)
        /\ \A i \in 1..Len(saved.log) :
              saved.log[i].kind = "sleep" => saved.log[i].ms = DefaultDelayMs
        /\ pc = "close" =>
              /\ fetchLog = saved.fetchLog
              /\ log = saved.log
              /\ results = saved.results

\* both crawls have returned: each fetched two sitemaps, failed to fetch
\* the seed page, returned PageA and slept one second after it
C14_Witness ==
    /\ phase = 2 /\ pc = "close"
    /\ Len(fetchLog) = 2 /\ saved.fetchLog = fetchLog
    /\ results = <<PageA>> /\ saved.results = results
    /\ log = <<FetchEvent("page", Seed, FALSE), FetchEvent("page", PageA, TRUE),
               SleepEvent(DefaultDelayMs)>>

-----------------------------------------------------------------------------
(* Properties of failed pages, of the sitemap index, of the browser and of
   the hosts crawled *)

(* C21: a URL whose fetch or extraction has failed is in the visited set
   crawledUrls. *)
C21_FailedUrlVisited ==
    \A i \in 1..Len(FailedPages) : FailedPages[i] \in crawledUrls

(* C22: the page fetch attempts of a crawl, the failed ones with the
   successful ones, are never more than maxPages. *)
C22_AttemptsWithinBudget ==
    CrawlStarted => Len(PageEvents) <= cfg.maxPages

(* C25: the children that fetchSitemap resolves are sitemap-index entries
   only: every fetchSitemap call of a crawl is for the root sitemap or for a
   <sitemap><loc> entry, never for a <url><loc> entry of a document that
   has both kinds.  The sites are those whose every <sitemap> element has
   a <loc>. *)
C25_OnlyIndexEntriesResolved ==
    (\A u \in SiteSitemapUrls : site[u].doc \notin BareSitemapDocs) =>
        \A i \in 1..Len(fetchLog) : fetchLog[i] \in SiteSitemapUrls

(* C28: no browser is left running: a browser that runs is the one in the
   browser field, and when every request has been answered none runs. *)
C28_NoBrowserLeftRunning ==
    /\ \A b \in running : b = browser
    /\ (\A r \in Reqs : reqs[r].pc = "done") => running = {}

(* C29: every URL fetched as a page has the host of the seed URL. *)
C29_FetchedPagesOnSeedHost ==
    \A i \in 1..Len(FetchedPages) : FetchedPages[i].host = cfg.url.host

-----------------------------------------------------------------------------
(* Properties of the robots.txt response, of the links and of the timeout *)

\* the number of the last crawl-delay line that has one, d when none has
RECURSIVE LastNumericCrawlDelay(_, _)
LastNumericCrawlDelay(lines, d) ==
    IF lines = <<>> THEN d
    ELSE LET l == Head(lines)
         IN LastNumericCrawlDelay(Tail(lines),
                IF l.d = "crawl-delay" /\ ParseInt(l.chars) # Null
                THEN ParseInt(l.chars) ELSE d)

(* C23: when the response for robots.txt has a non-success HTTP status, the
   policy fetchRobotsTxt returns is empty, whatever the body holds. *)
C23_NonSuccessStatusEmptyPolicy ==
    (robotsFetch = "ok" /\ robotsDoc.status = 404) => robotsTxt = EmptyPolicy

(* C24: after a robots.txt served with success is parsed, crawlDelay is the
   number of the last crawl-delay line whose value is numeric: a later line
   with a value that is not leaves it as it was. *)
C24_CrawlDelayIsLastNumeric ==
    (robotsFetch = "ok" /\ robotsDoc.status = 200) =>
        robotsTxt.crawlDelay = LastNumericCrawlDelay(robotsDoc.lines, Null)

(* C26: a link whose href resolves against the URL of its page is internal
   exactly when the host of the resolved URL is the host of the seed URL of
   the crawl, on the pages of another host as well. *)
C26_InternalMeansSeedHost ==
    \A i \in 1..Len(analysis.links) :
        LET l == analysis.links[i]
        IN CanResolve(l.href) =>
              (l.isInternal <=> Resolve(l.href, analysis.url).host = cfg.url.host)

(* C27: every page fetch of crawlSite runs under the timeout of the crawl
   config when the config has one, under the default of 30 seconds when it
   has none. *)
C27_PageFetchUsesConfigTimeout ==
    \A i \in 1..Len(log) :
        log[i].kind = "page" =>
            log[i].timeout = IF cfg.timeout = Null THEN DefaultTimeoutMs
                             ELSE cfg.timeout[1]

====
